---- MODULE Spec2Model ----
(***************************************************************************)
(* Parameter-shift gradients of tequila (src/tequila/circuit/gradient.py). *)
(*                                                                         *)
(* Python objects are modelled as follows.                                 *)
(*   - Gates live in a heap (a sequence of gate records); a circuit holds  *)
(*     references (heap indices), so that aliasing between a circuit and   *)
(*     the shifted circuits derived from it is observable.                 *)
(*   - Floats are integers.  Weights of an Objective are kept in units of  *)
(*     one half, so 0.5 * d is stored as d and 1.0 as 2.                   *)
(*   - An angle is a pair (expression, number of pi/2 shifts added).       *)
(*   - An Objective is a weighted sum of products of factors; a factor is  *)
(*     an expectation value or the derivative of a transformation.         *)
(*   - The outcome of a call is a record: status "ok" with the returned    *)
(*     value, or the name of the exception that left the call.             *)
(***************************************************************************)
EXTENDS Integers, Sequences, FiniteSets, TLC

VARIABLES heap, objective, env, call, outcome

vars == <<heap, objective, env, call, outcome>>

(* ------------------------------ bounds --------------------------------- *)

MaxVal == 1

MaxConst == 2

MaxArgnum == 2

MaxGates == 2

MaxEVs == 2

(* --------------------------- expression graph -------------------------- *)

Names == {"theta", "phi", "psi"}

BoundNames == {"theta", "phi"}

Vals == 0..MaxVal

Variable(n) == [type |-> "Variable", name |-> n]

Number(k) == [type |-> "Number", val |-> k]

Transform(f, a, b) == [type |-> "Transform", f |-> f, args |-> <<a, b>>]

NoneValue == [type |-> "None"]

Float(k) == [type |-> "Float", val |-> k]

Ok(v) == [status |-> "ok", value |-> v]

Raise(e) == [status |-> e, value |-> NoneValue]

SupportedOps == {"add", "sub", "mul", "truediv", "pow"}

AllOps == SupportedOps \cup {"floordiv"}

RECURSIVE has_variable(_, _)
has_variable(arg, var) ==
    CASE arg.type = "Variable" -> arg.name = var
      [] arg.type = "Transform" ->
            \E i \in 1..Len(arg.args) : has_variable(arg.args[i], var)
      [] OTHER -> FALSE

RECURSIVE Eval(_, _)
Eval(arg, e) ==
    CASE arg.type = "Variable" -> e[arg.name]
      [] arg.type = "Number" -> arg.val
      [] OTHER ->
            LET x == Eval(arg.args[1], e)
                y == Eval(arg.args[2], e)
            IN CASE arg.f = "add" -> x + y
                 [] arg.f = "sub" -> x - y
                 [] arg.f = "mul" -> x * y
                 [] OTHER -> IF y = 0 THEN 0 ELSE x \div y

(* ------------------------ Partial-Derivative Table --------------------- *)

(* The body of each lambda tgrad returns, named by its formula. *)
Lambda(formula) == [type |-> "Function", formula |-> formula]

tgradArg1_sub_plus(f, argnum) ==
    IF argnum = 0
    THEN CASE f = "add" -> Ok(Lambda("1.0"))
           [] f = "mul" -> Ok(Lambda("y"))
           [] f = "sub" -> Ok(Lambda("1.0"))
           [] f = "truediv" -> Ok(Lambda("1/y"))
           [] f = "pow" -> Ok(Lambda("y*x**(y-1)"))
           [] OTHER -> Raise("UnsupportedOperation")
    ELSE IF argnum = 1
    THEN CASE f = "add" -> Ok(Lambda("1.0"))
           [] f = "mul" -> Ok(Lambda("x"))
           [] f = "sub" -> Ok(Lambda("1.0"))
           [] f = "truediv" -> Ok(Lambda("-x/y**2"))
           [] f = "pow" -> Ok(Lambda("x**y*log(x)"))
           [] OTHER -> Raise("UnsupportedOperation")
    ELSE Ok(NoneValue)

tgrad(f, argnum) ==
    IF argnum = 0
    THEN CASE f = "add" -> Ok(Lambda("1.0"))
           [] f = "mul" -> Ok(Lambda("y"))
           [] f = "sub" -> Ok(Lambda("1.0"))
           [] f = "truediv" -> Ok(Lambda("1/y"))
           [] f = "pow" -> Ok(Lambda("y*x**(y-1)"))
           [] OTHER -> Raise("UnsupportedOperation")
    ELSE IF argnum = 1
    THEN CASE f = "add" -> Ok(Lambda("1.0"))
           [] f = "mul" -> Ok(Lambda("x"))
           [] f = "sub" -> Ok(Lambda("-1.0"))
           [] f = "truediv" -> Ok(Lambda("-x/y**2"))
           [] f = "pow" -> Ok(Lambda("x**y*log(x)"))
           [] OTHER -> Raise("UnsupportedOperation")
    ELSE Ok(NoneValue)

(* Calling what tgrad returned on the argument values.  The expressions    *)
(* the model evaluates use add, sub and mul, whose partials are integers.  *)
ApplyLambda(fn, x, y) ==
    CASE fn.formula = "1.0" -> 1
      [] fn.formula = "-1.0" -> -1
      [] fn.formula = "y" -> y
      [] fn.formula = "x" -> x

(* --------------------------- Chain-Rule Evaluator ---------------------- *)

RECURSIVE SumSeq(_)
SumSeq(s) == IF s = <<>> THEN 0 ELSE Head(s) + SumSeq(Tail(s))

RECURSIVE weight_chain(_, _, _)
weight_chain(par, var, e) ==
    IF par.type = "Variable"
    THEN IF par.name = var THEN Ok(Float(1)) ELSE Ok(Float(0))
    ELSE IF par.type = "Transform"
    THEN LET la == Len(par.args)
             floats == [k \in 1..la |-> Eval(par.args[k], e)]
             term(i) ==
                 IF has_variable(par.args[i], var)
                 THEN LET fn == tgrad(par.f, i - 1)
                      IN IF fn.status # "ok" THEN fn
                         ELSE IF fn.value.type # "Function" THEN Raise("TypeError")
                         ELSE LET d == weight_chain(par.args[i], var, e)
                              IN IF d.status # "ok" THEN d
                                 ELSE Ok(Float(ApplyLambda(fn.value, floats[1], floats[2])
                                               * d.value.val))
                 ELSE Ok(Float(0))
             expan == [i \in 1..la |-> term(i)]
             failed == {i \in 1..la : expan[i].status # "ok"}
         IN IF ~has_variable(par, var) THEN Ok(Float(0))
            ELSE IF failed # {}
            THEN expan[CHOOSE i \in failed : \A j \in failed : i <= j]
            ELSE Ok(Float(SumSeq([i \in 1..la |-> expan[i].value.val])))
    ELSE Raise("InvalidOperand")

(* ------------------------- gates and circuits -------------------------- *)

Angle(expr, shift) == [expr |-> expr, shift |-> shift]

AnglePlusWrongSign(a, k) == [a EXCEPT !.shift = @ - k]

(* angle + k * pi/2 *)
AnglePlus(a, k) == [a EXCEPT !.shift = @ + k]

RotationGate(p, fr) ==
    [kind |-> "rotation", parameter |-> p, frozen |-> fr, angle |-> Angle(p, 0)]

PowerGate(p, fr) == [kind |-> "power", parameter |-> p, frozen |-> fr, power |-> p]

OtherGate(p, fr) == [kind |-> "other", parameter |-> p, frozen |-> fr]

FixedGate == [kind |-> "fixed", parameter |-> NoneValue, frozen |-> FALSE]

hasattr(g, a) == a \in DOMAIN g

is_parametrized(g) == g.parameter.type # "None"

is_frozen(g) == g.frozen

QCircuit(refs, passes) == [type |-> "QCircuit", gates |-> refs, passes |-> passes]

replace_gate(U, position, gates) ==
    [U EXCEPT !.gates = SubSeq(@, 1, position - 1) \o gates
                        \o SubSeq(@, position + 1, Len(@))]

ExpectationValue(U, H) == [type |-> "ExpectationValue", U |-> U, H |-> H]

(* The state a call works on: the heap of gate objects and the number of   *)
(* compilation passes run so far.                                          *)
Store(h, n) == [heap |-> h, compiled |-> n]

deepcopy_alias(st, ref) == [st |-> st, ref |-> ref]

deepcopy(st, ref) ==
    [st |-> [st EXCEPT !.heap = Append(@, @[ref])], ref |-> Len(st.heap) + 1]

SetFrozen(st, ref, b) == [st EXCEPT !.heap[ref].frozen = b]

SetAngle(st, ref, a) == [st EXCEPT !.heap[ref].angle = a]

(* ------------------------------ Objectives ----------------------------- *)

(* A factor: the transformation applied to the values of an ordered list   *)
(* of expectation values.                                                  *)
Factor(evs, t) == [expectationvalues |-> evs, transformation |-> t]

Term(w, fs) == [w |-> w, factors |-> fs]

ObjectiveOf(terms) == [type |-> "Objective", terms |-> terms]

(* Objective(expectationvalues=..., transformation=...): weight 1.0 *)
Objective(evs, t) == ObjectiveOf(<<Term(2, <<Factor(evs, t)>>)>>)

expectationvalues(o) == o.terms[1].factors[1].expectationvalues

transformation(o) == o.terms[1].factors[1].transformation

(* float * Objective; w is in halves, as the weights are *)
ObjScale(w, o) ==
    ObjectiveOf([k \in 1..Len(o.terms) |-> [o.terms[k] EXCEPT !.w = (w * @) \div 2]])

ObjAdd(a, b) == ObjectiveOf(a.terms \o b.terms)

RECURSIVE Products(_, _)
Products(ts, us) ==
    IF ts = <<>> THEN <<>>
    ELSE [k \in 1..Len(us) |->
             Term((Head(ts).w * us[k].w) \div 2, Head(ts).factors \o us[k].factors)]
         \o Products(Tail(ts), us)

(* Objective * other: defined for Objectives (and numbers); None is neither *)
ObjMul(a, b) ==
    IF b.type = "Objective" THEN Ok(ObjectiveOf(Products(a.terms, b.terms)))
    ELSE Raise("TypeError")

(* A transformation: a named function, differentiated in the argument     *)
(* positions listed in d.                                                  *)
Transformation(name) == [f |-> name, d |-> <<>>]

(* jax.grad(transformation, argnums=i) *)
jax_grad(t, i) == [t EXCEPT !.d = Append(@, i)]

RECURSIVE VarsOf(_)
VarsOf(expr) ==
    CASE expr.type = "Variable" -> <<expr.name>>
      [] expr.type = "Transform" -> VarsOf(expr.args[1]) \o VarsOf(expr.args[2])
      [] OTHER -> <<>>

RECURSIVE Dedup(_)
Dedup(s) ==
    IF s = <<>> THEN <<>>
    ELSE LET front == Dedup(SubSeq(s, 1, Len(s) - 1))
             x == s[Len(s)]
         IN IF \E k \in 1..Len(front) : front[k] = x THEN front ELSE Append(front, x)

RECURSIVE Flatten(_)
Flatten(ss) == IF ss = <<>> THEN <<>> ELSE Head(ss) \o Flatten(Tail(ss))

InSeq(x, s) == \E k \in 1..Len(s) : s[k] = x

(* The free variable names of a circuit, an expectation value or an        *)
(* Objective, in order of first occurrence.                                *)
RECURSIVE extract_variables(_, _)
extract_variables(h, obj) ==
    CASE obj.type = "QCircuit" ->
            Dedup(Flatten([k \in 1..Len(obj.gates) |-> VarsOf(h[obj.gates[k]].parameter)]))
      [] obj.type = "ExpectationValue" -> extract_variables(h, obj.U)
      [] OTHER ->
            LET evs == expectationvalues(obj)
            IN Dedup(Flatten([k \in 1..Len(evs) |-> extract_variables(h, evs[k])]))

(* One compilation pass over every circuit of obj.  The circuits of the    *)
(* model hold no trotterized gate and no controlled rotation, so the gates *)
(* stay; the circuit records the pass.                                     *)
RECURSIVE CompilePass(_, _)
CompilePass(obj, pass) ==
    CASE obj.type = "QCircuit" -> [obj EXCEPT !.passes = Append(@, pass)]
      [] obj.type = "ExpectationValue" -> [obj EXCEPT !.U = CompilePass(@, pass)]
      [] OTHER ->
            LET evs == expectationvalues(obj)
            IN Objective([k \in 1..Len(evs) |-> CompilePass(evs[k], pass)],
                         transformation(obj))

compile_trotterized_gate(obj) == CompilePass(obj, "trotterized_gate")

compile_controlled_rotation(obj) == CompilePass(obj, "controlled_rotation")

(* ------------------- Expectation-Value Gradient Builder ---------------- *)

Result(st, out) == [st |-> st, out |-> out]

(* The increment of one parametrized, non-frozen gate with an angle        *)
(* (gradient.py lines 166-181).  g is read through the heap at every use,  *)
(* as the code reads g.angle and g.parameter after it wrote to the copies. *)
GateIncrement(st, E, i, variable, e) ==
    LET ref == E.U.gates[i]
        ca == deepcopy(st, ref)
        neo_a == ca.ref
        s1 == SetFrozen(ca.st, neo_a, TRUE)
        s2 == SetAngle(s1, neo_a, AnglePlus(s1.heap[ref].angle, 1))
        U1 == replace_gate(E.U, i, <<neo_a>>)
        c1 == weight_chain(s2.heap[ref].parameter, variable, e)
        cb == deepcopy(s2, ref)
        neo_b == cb.ref
        s3 == SetFrozen(cb.st, neo_b, TRUE)
        s4 == SetAngle(s3, neo_b, AnglePlus(s3.heap[ref].angle, -1))
        U2 == replace_gate(E.U, i, <<neo_b>>)
        c2 == weight_chain(s4.heap[ref].parameter, variable, e)
        Oplus == ExpectationValue(U1, E.H)
        Ominus == ExpectationValue(U2, E.H)
    IN IF c1.status # "ok" THEN Result(s2, c1)
       ELSE IF c2.status # "ok" THEN Result(s4, c2)
       ELSE Result(s4, Ok(ObjAdd(ObjScale(c1.value.val, Objective(<<Oplus>>, Transformation("id"))),
                                 ObjScale(-c2.value.val, Objective(<<Ominus>>, Transformation("id"))))))

(* if g.is_parametrized() and not g.is_frozen() *)
DifferentiableIgnoringFrozen(g) == is_parametrized(g)

Differentiable(g) == is_parametrized(g) /\ ~is_frozen(g)

(* The exception for a parametrized, non-frozen gate without an angle. *)
UndifferentiableErrorNoPowerBranch(g) == "UnsupportedGateKind"

UndifferentiableError(g) ==
    IF hasattr(g, "power") THEN "NotImplemented" ELSE "UnsupportedGateKind"

(* if dO is None: dO = dOinc else: dO = dO + dOinc *)
Accumulate(dO, dOinc) == IF dO.type = "None" THEN dOinc ELSE ObjAdd(dO, dOinc)

(* The gate loop from position i on, with dO accumulated so far. *)
RECURSIVE grad_expectationvalue_loop(_, _, _, _, _, _)
grad_expectationvalue_loop(st, E, variable, e, i, dO) ==
    IF i > Len(E.U.gates) THEN Result(st, Ok(dO))
    ELSE LET g == st.heap[E.U.gates[i]]
         IN IF Differentiable(g)
            THEN IF hasattr(g, "angle")
                 THEN LET inc == GateIncrement(st, E, i, variable, e)
                      IN IF inc.out.status # "ok" THEN inc
                         ELSE grad_expectationvalue_loop(
                                  inc.st, E, variable, e, i + 1,
                                  Accumulate(dO, inc.out.value))
                 ELSE Result(st, Raise(UndifferentiableError(g)))
            ELSE grad_expectationvalue_loop(st, E, variable, e, i + 1, dO)

grad_expectationvalue(st, E, variable, e) ==
    grad_expectationvalue_loop(st, E, variable, e, 1, NoneValue)

(* ------------------ Dispatcher and Objective Gradient Builder ---------- *)

Str(n) == [type |-> "str", name |-> n]

List(items) == [type |-> "list", items |-> items]

RECURSIVE grad(_, _, _, _, _)
RECURSIVE grad_fanout(_, _, _, _, _, _)
RECURSIVE grad_objective_loop(_, _, _, _, _, _)
RECURSIVE grad_objective(_, _, _, _)

RECURSIVE grad_fanout_recompiles(_, _, _, _, _, _)
grad_fanout_recompiles(st, compiled, names, e, k, acc) ==
    IF k > Len(names) THEN Result(st, Ok(List(acc)))
    ELSE LET r == grad(st, compiled, Str(names[k]), FALSE, e)
         IN IF r.out.status # "ok" THEN r
            ELSE grad_fanout_recompiles(r.st, compiled, names, e, k + 1,
                                        Append(acc, r.out.value))

(* [grad(obj=compiled, variable=v, no_compile=True) for v in variable],    *)
(* from the k-th name on, with the entries built so far.                   *)
grad_fanout(st, compiled, names, e, k, acc) ==
    IF k > Len(names) THEN Result(st, Ok(List(acc)))
    ELSE LET r == grad(st, compiled, Str(names[k]), TRUE, e)
         IN IF r.out.status # "ok" THEN r
            ELSE grad_fanout(r.st, compiled, names, e, k + 1, Append(acc, r.out.value))

grad(st, obj, variable, no_compile, e) ==
    LET compiled == IF ~no_compile
                    THEN compile_controlled_rotation(compile_trotterized_gate(obj))
                    ELSE obj
        s1 == IF ~no_compile THEN [st EXCEPT !.compiled = @ + 1] ELSE st
        resolved == IF variable.type = "None"
                    THEN List(extract_variables(s1.heap, compiled))
                    ELSE variable
    IN IF resolved.type # "str"
       THEN grad_fanout(s1, compiled, resolved.items, e, 1, <<>>)
       ELSE IF obj.type = "ExpectationValue"
       THEN grad_expectationvalue(s1, compiled, resolved.name, e)
       ELSE IF obj.type = "Objective"
       THEN grad_objective(s1, compiled, resolved.name, e)
       ELSE Result(s1, Raise("UnsupportedType"))

(* The loop of __grad_objective from expectation value i on. *)
grad_objective_loop(st, o, variable, e, i, dO) ==
    LET evs == expectationvalues(o)
    IN IF i > Len(evs) THEN Result(st, Ok(dO))
       ELSE IF ~InSeq(variable, extract_variables(st.heap, evs[i]))
       THEN grad_objective_loop(st, o, variable, e, i + 1, dO)
       ELSE LET df == jax_grad(transformation(o), i - 1)
                outer == Objective(evs, df)
                inner == grad(st, evs[i], Str(variable), FALSE, e)
                prod == ObjMul(outer, inner.out.value)
            IN IF inner.out.status # "ok" THEN inner
               ELSE IF prod.status # "ok" THEN Result(inner.st, prod)
               ELSE grad_objective_loop(
                        inner.st, o, variable, e, i + 1,
                        Accumulate(dO, prod.value))

grad_objective(st, o, variable, e) ==
    grad_objective_loop(st, o, variable, e, 1, NoneValue)

(* ------------------------- what a caller observes --------------------- *)

(* A returned value with every gate reference replaced by the gate it      *)
(* refers to.                                                              *)
ViewCircuit(h, U) == [U EXCEPT !.gates = [k \in 1..Len(@) |-> h[@[k]]]]

ViewEV(h, E) == [E EXCEPT !.U = ViewCircuit(h, @)]

ViewFactor(h, f) ==
    [f EXCEPT !.expectationvalues = [k \in 1..Len(@) |-> ViewEV(h, @[k])]]

ViewTerm(h, t) == [t EXCEPT !.factors = [k \in 1..Len(@) |-> ViewFactor(h, @[k])]]

ViewObjective(h, v) ==
    IF v.type = "Objective"
    THEN [v EXCEPT !.terms = [k \in 1..Len(@) |-> ViewTerm(h, @[k])]]
    ELSE v

View(h, v) ==
    IF v.type = "list"
    THEN [v EXCEPT !.items = [k \in 1..Len(@) |-> ViewObjective(h, @[k])]]
    ELSE ViewObjective(h, v)

Observed(r) ==
    [status |-> r.out.status, value |-> View(r.st.heap, r.out.value),
     compiled |-> r.st.compiled]

(* ------------------------------ the program ---------------------------- *)

theta == Variable("theta")

phi == Variable("phi")

GateSet ==
    { RotationGate(theta, FALSE), RotationGate(theta, TRUE),
      RotationGate(phi, FALSE),
      RotationGate(Transform("add", Transform("mul", Number(2), theta), phi), FALSE),
      RotationGate(Transform("floordiv", theta, Number(2)), FALSE),
      PowerGate(theta, FALSE), OtherGate(phi, FALSE), FixedGate }

RECURSIVE SeqsUpTo(_, _)
SeqsUpTo(S, n) ==
    IF n = 0 THEN {<<>>}
    ELSE LET shorter == SeqsUpTo(S, n - 1)
         IN shorter \cup {Append(s, x) : s \in shorter, x \in S}

(* The circuits of the further expectation values of the Objective. *)
OtherCircuits == { <<RotationGate(theta, TRUE)>>, <<RotationGate(theta, FALSE)>> }

RECURSIVE Offset(_, _)
Offset(cs, k) == IF k = 1 THEN 0 ELSE Offset(cs, k - 1) + Len(cs[k - 1])

(* The Objective over the circuits cs, whose gates are laid out in the heap *)
(* one circuit after the other.                                             *)
ObjectiveOver(cs) ==
    Objective([k \in 1..Len(cs) |->
                  ExpectationValue(
                      QCircuit([j \in 1..Len(cs[k]) |-> Offset(cs, k) + j], <<>>), k)],
              Transformation("f"))

(* The bindings of the variables: every variable bound to the same value. *)
MainEnvs == {[n \in BoundNames |-> v] : v \in Vals}

Init ==
    \E first \in SeqsUpTo(GateSet, MaxGates), rest \in SeqsUpTo(OtherCircuits, MaxEVs - 1) :
        /\ heap = Flatten(<<first>> \o rest)
        /\ objective = ObjectiveOver(<<first>> \o rest)
        /\ env \in MainEnvs
        /\ call = [op |-> "none"]
        /\ outcome = Ok(NoneValue)

Idle == call.op = "none"

Targets == {"Objective", "ExpectationValue", "QCircuit"}

(* The object a call of grad is given. *)
Target(t) ==
    CASE t = "Objective" -> objective
      [] t = "ExpectationValue" -> expectationvalues(objective)[1]
      [] OTHER -> expectationvalues(objective)[1].U

VariableArgs ==
    {NoneValue} \cup {Str(n) : n \in Names}
    \cup {List(<<>>), List(<<"phi", "theta">>)}

CallGrad ==
    \E t \in Targets, variable \in VariableArgs, no_compile \in BOOLEAN :
        LET r == grad(Store(heap, 0), Target(t), variable, no_compile, env)
        IN /\ Idle
           /\ call' = [op |-> "grad", obj |-> t, variable |-> variable,
                       no_compile |-> no_compile]
           /\ outcome' = Observed(r)
           /\ heap' = SubSeq(r.st.heap, 1, Len(heap))
           /\ UNCHANGED <<objective, env>>

CallGradExpectationvalue ==
    \E k \in 1..Len(expectationvalues(objective)), variable \in Names :
        LET r == grad_expectationvalue(Store(heap, 0), expectationvalues(objective)[k],
                                       variable, env)
        IN /\ Idle
           /\ call' = [op |-> "grad_expectationvalue", E |-> k, variable |-> variable]
           /\ outcome' = Observed(r)
           /\ heap' = SubSeq(r.st.heap, 1, Len(heap))
           /\ UNCHANGED <<objective, env>>

(* The caller takes the outcome; the heap stays as the call left it. *)
Return ==
    /\ ~Idle
    /\ call' = [op |-> "none"]
    /\ outcome' = Ok(NoneValue)
    /\ UNCHANGED <<heap, objective, env>>

Next == CallGrad \/ CallGradExpectationvalue \/ Return

Spec == Init /\ [][Next]_vars

(* ----------------------- inputs of the pure functions ------------------ *)

Leaves == {Variable(n) : n \in BoundNames} \cup {Number(k) : k \in 1..MaxConst}

ArithOps == {"add", "sub", "mul"}

Trees1 == Leaves \cup {Transform(f, a, b) : f \in ArithOps, a \in Leaves, b \in Leaves}

Trees2 ==
    {Transform(f, a, b) : f \in ArithOps, a \in Trees1, b \in Leaves}
    \cup {Transform(f, a, b) : f \in ArithOps, a \in Leaves, b \in Trees1}
    \cup {Transform("floordiv", a, Number(2)) : a \in Leaves}

(* What a caller may pass as par: Variables, Transforms and plain numbers. *)
Pars == Trees1 \cup Trees2

Envs == [BoundNames -> Vals]

InitChain ==
    /\ heap = <<>>
    /\ objective = <<>>
    /\ env \in Envs
    /\ call = [op |-> "none"]
    /\ outcome = Ok(NoneValue)

CallWeightChain ==
    \E par \in Pars, var \in Names :
        /\ Idle
        /\ call' = [op |-> "weight_chain", par |-> par, variable |-> var]
        /\ outcome' = weight_chain(par, var, env)
        /\ UNCHANGED <<heap, objective, env>>

CallTgrad ==
    \E f \in AllOps, argnum \in -1..MaxArgnum :
        /\ Idle
        /\ call' = [op |-> "tgrad", f |-> f, argnum |-> argnum]
        /\ outcome' = tgrad(f, argnum)
        /\ UNCHANGED <<heap, objective, env>>

NextChain == CallWeightChain \/ CallTgrad \/ Return

SpecChain == InitChain /\ [][NextChain]_vars

(* =============================== claims ================================ *)

(* The derivative of an expression over add, sub and mul by the rules of   *)
(* calculus (sum, difference and product rule), at the bindings e: the     *)
(* reference the Chain-Rule Evaluator is compared with.                    *)
RECURSIVE Deriv(_, _, _)
Deriv(t, var, e) ==
    CASE t.type = "Variable" -> IF t.name = var THEN 1 ELSE 0
      [] t.type = "Number" -> 0
      [] OTHER ->
            LET a == t.args[1]
                b == t.args[2]
            IN CASE t.f = "add" -> Deriv(a, var, e) + Deriv(b, var, e)
                 [] t.f = "sub" -> Deriv(a, var, e) - Deriv(b, var, e)
                 [] OTHER -> Deriv(a, var, e) * Eval(b, e) + Eval(a, e) * Deriv(b, var, e)

RECURSIVE IsArith(_)
IsArith(t) ==
    CASE t.type = "Transform" ->
            t.f \in ArithOps /\ IsArith(t.args[1]) /\ IsArith(t.args[2])
      [] OTHER -> TRUE

(* C6: tgrad fails with UnsupportedOperation for every operator outside    *)
(* {add, sub, mul, truediv, pow} and for every argument position outside   *)
(* {0, 1}; it returns a derivative function only for a supported operator  *)
(* at position 0 or 1.                                                     *)
C6_TgradFailsOutsideTable ==
    call.op = "tgrad" =>
        IF call.f \in SupportedOps /\ call.argnum \in {0, 1}
        THEN outcome.status = "ok" /\ outcome.value.type = "Function"
        ELSE outcome.status = "UnsupportedOperation"

(* C8: for every expression tree over Variables, constants and add, sub,   *)
(* mul, rooted at a Variable or a Transform, and every binding, the        *)
(* Chain-Rule Evaluator returns the total derivative with respect to the   *)
(* target variable; 2*theta gives 2.0 whatever theta is, theta + phi gives *)
(* 1.0 with respect to theta and 0.0 with respect to psi.                  *)
C8_ChainRuleIsTotalDerivative ==
    (call.op = "weight_chain" /\ call.par.type # "Number" /\ IsArith(call.par)) =>
        /\ outcome = Ok(Float(Deriv(call.par, call.variable, env)))
        /\ (call.par.type = "Variable" =>
                outcome.value.val = IF call.par.name = call.variable THEN 1 ELSE 0)
        /\ (~has_variable(call.par, call.variable) => outcome.value.val = 0)
        /\ (call.par = Transform("mul", Number(2), Variable("theta"))
            /\ call.variable = "theta" => outcome.value.val = 2)
        /\ (call.par = Transform("add", Variable("theta"), Variable("phi")) =>
                outcome.value.val = CASE call.variable = "theta" -> 1
                                      [] call.variable = "phi" -> 1
                                      [] OTHER -> 0)

(* C8 witness: a product nested in a difference was differentiated and the *)
(* derivative depends on the bindings.                                     *)
C8_Witness ==
    /\ call.op = "weight_chain"
    /\ call.par = Transform("sub", Variable("phi"),
                            Transform("mul", Variable("theta"), Variable("phi")))
    /\ call.variable = "phi"
    /\ env["theta"] = 0
    /\ outcome = Ok(Float(1))

(* ---------------- claims about the expectation-value builder ----------- *)

(* The expectation value a call of the builder was given, its gates as the *)
(* heap holds them now, and the positions the parameter-shift rule is for. *)
CalledEV == expectationvalues(objective)[call.E]

GatesOf(E) == [j \in 1..Len(E.U.gates) |-> heap[E.U.gates[j]]]

IsEligible(g) == g.parameter.type # "None" /\ ~g.frozen

EligiblePositions(E) == {j \in 1..Len(E.U.gates) : IsEligible(GatesOf(E)[j])}

(* The number of eligible positions up to position i. *)
Rank(E, i) == Cardinality({j \in EligiblePositions(E) : j <= i})

(* A gate the builder cannot differentiate with respect to var. *)
IsUndifferentiable(g, var) ==
    /\ IsEligible(g)
    /\ \/ g.kind # "rotation"
       \/ (~IsArith(g.parameter) /\ has_variable(g.parameter, var))

ExpectedError(g) ==
    CASE g.kind = "power" -> "NotImplemented"
      [] g.kind = "other" -> "UnsupportedGateKind"
      [] OTHER -> "UnsupportedOperation"

FirstUndifferentiable(E, var) ==
    LET bad == {j \in 1..Len(E.U.gates) : IsUndifferentiable(GatesOf(E)[j], var)}
    IN IF bad = {} THEN 0 ELSE CHOOSE j \in bad : \A k \in bad : j <= k

(* The term of the shifted circuit: gate i of the input replaced by a      *)
(* frozen copy with the angle shifted by sign * pi/2, every other gate and *)
(* the observable as in the input.                                         *)
IsShiftedTerm(t, E, i, sign, var) ==
    LET g == GatesOf(E)[i]
    IN /\ t.w = sign * Deriv(g.parameter, var, env)
       /\ Len(t.factors) = 1
       /\ Len(t.factors[1].expectationvalues) = 1
       /\ LET S == t.factors[1].expectationvalues[1]
          IN /\ S.H = E.H
             /\ Len(S.U.gates) = Len(E.U.gates)
             /\ \A j \in 1..Len(E.U.gates) :
                    IF j = i
                    THEN S.U.gates[j] =
                             [g EXCEPT !.frozen = TRUE,
                                       !.angle = [expr |-> g.angle.expr,
                                                  shift |-> g.angle.shift + sign]]
                    ELSE S.U.gates[j] = GatesOf(E)[j]

(* C1: when the builder returns, the contribution of every parametrized,   *)
(* non-frozen angle gate i is exactly two expectation values over the      *)
(* observable H of the input: one over U with only gate i replaced by a    *)
(* frozen copy with angle + pi/2 and weight +w, one with angle - pi/2 and  *)
(* weight -w, w = 0.5 * derivative(g.parameter, variable); the result      *)
(* holds nothing else.                                                     *)
C1_ParameterShiftPair ==
    (call.op = "grad_expectationvalue" /\ outcome.status = "ok"
     /\ EligiblePositions(CalledEV) # {}) =>
        /\ outcome.value.type = "Objective"
        /\ Len(outcome.value.terms) = 2 * Cardinality(EligiblePositions(CalledEV))
        /\ \A i \in EligiblePositions(CalledEV) :
               /\ IsShiftedTerm(outcome.value.terms[2 * Rank(CalledEV, i) - 1],
                                CalledEV, i, 1, call.variable)
               /\ IsShiftedTerm(outcome.value.terms[2 * Rank(CalledEV, i)],
                                CalledEV, i, -1, call.variable)

(* C1 witness: two gates were differentiated, the second with weight       *)
(* 0.5 * 2 on its +pi/2 circuit.                                           *)
C1_Witness ==
    /\ call.op = "grad_expectationvalue"
    /\ outcome.status = "ok"
    /\ outcome.value.type = "Objective"
    /\ Len(outcome.value.terms) = 4
    /\ outcome.value.terms[3].w = 2
    /\ outcome.value.terms[3].factors[1].expectationvalues[1].U.gates[2].angle.shift = 1

C4_UndifferentiableGateAborts ==
    call.op = "grad_expectationvalue" =>
        \A i \in EligiblePositions(CalledEV) :
            /\ GatesOf(CalledEV)[i].kind = "power" => outcome.status = "NotImplemented"
            /\ GatesOf(CalledEV)[i].kind = "other" => outcome.status = "UnsupportedGateKind"

(* Whether grad was called on the first expectation value, or on the       *)
(* Objective with a variable of its first expectation value.               *)
ReachesFirstEV ==
    /\ call.op = "grad"
    /\ call.variable.type = "str"
    /\ \/ call.obj = "ExpectationValue"
       \/ /\ call.obj = "Objective"
          /\ InSeq(call.variable.name,
                   extract_variables(heap, expectationvalues(objective)[1]))

(* C4 amended: a parametrized non-frozen gate without an angle anywhere    *)
(* makes the builder fail for every variable, with no partial gradient;    *)
(* the error is that of the first gate in circuit order that cannot be     *)
(* differentiated: NotImplemented for a power gate, UnsupportedGateKind    *)
(* for a gate with neither angle nor power, the Chain-Rule Evaluator's     *)
(* error for an angle gate.  grad passes the error on unchanged.           *)
C4_FirstUndifferentiableGateAborts ==
    /\ call.op = "grad_expectationvalue" =>
           LET bad == FirstUndifferentiable(CalledEV, call.variable)
           IN IF bad = 0 THEN outcome.status = "ok"
              ELSE /\ outcome.status = ExpectedError(GatesOf(CalledEV)[bad])
                   /\ outcome.value.type = "None"
    /\ ReachesFirstEV =>
           LET E == expectationvalues(objective)[1]
               bad == FirstUndifferentiable(E, call.variable.name)
           IN bad # 0 => /\ outcome.status = ExpectedError(GatesOf(E)[bad])
                         /\ outcome.value.type = "None"

(* C4 witness: a power gate behind a differentiable angle gate aborted the *)
(* gradient, and the error left grad.                                      *)
C4_Witness ==
    /\ call.op = "grad"
    /\ call.obj = "ExpectationValue"
    /\ call.variable.type = "str"
    /\ LET gs == GatesOf(expectationvalues(objective)[1])
       IN /\ Len(gs) = 2
          /\ gs[1].kind = "rotation" /\ IsEligible(gs[1]) /\ IsArith(gs[1].parameter)
          /\ gs[2].kind = "power" /\ IsEligible(gs[2])
    /\ outcome.status = "NotImplemented"

(* C10: a call of the builder, returning or failing, leaves the input      *)
(* unchanged: the circuit holds the same gates in the same order, each     *)
(* with the same angle, parameter and frozen flag, and a second call on    *)
(* the same input has the same outcome.                                    *)
C10_InputUnchanged ==
    [][call'.op = "grad_expectationvalue" =>
           /\ heap' = heap
           /\ objective' = objective
           /\ Observed(grad_expectationvalue(
                  Store(heap', 0), expectationvalues(objective')[call'.E],
                  call'.variable, env')) = outcome']_vars

(* C10 witness: the copy in the shifted circuit is frozen and shifted, the *)
(* gate of the input is neither.                                           *)
C10_Witness ==
    /\ call.op = "grad_expectationvalue"
    /\ outcome.status = "ok"
    /\ outcome.value.type = "Objective"
    /\ \E i \in 1..Len(CalledEV.U.gates) :
           LET copy == outcome.value.terms[1].factors[1].expectationvalues[1].U.gates[i]
           IN /\ copy.frozen /\ copy.angle.shift = 1
              /\ ~GatesOf(CalledEV)[i].frozen /\ GatesOf(CalledEV)[i].angle.shift = 0

(* ------------------------ claims about the dispatcher ------------------ *)

(* Every circuit a returned value holds. *)
ResultCircuits(v) ==
    IF v.type = "Objective"
    THEN {v.terms[k].factors[f].expectationvalues[n].U :
             <<k, f, n>> \in
                 {<<a, b, c>> \in (1..Len(v.terms)) \X (1..2) \X (1..Len(expectationvalues(objective))) :
                      /\ b <= Len(v.terms[a].factors)
                      /\ c <= Len(v.terms[a].factors[b].expectationvalues)}}
    ELSE {}

AllResultCircuits(v) ==
    IF v.type = "list"
    THEN UNION {ResultCircuits(v.items[k]) : k \in 1..Len(v.items)}
    ELSE ResultCircuits(v)

C5_UnsupportedTypeAlwaysRaises ==
    (call.op = "grad" /\ call.obj = "QCircuit") => outcome.status = "UnsupportedType"

(* C7: in the Objective gradient builder an expectation value that lists   *)
(* the variable among its free variables but has the gradient None is an   *)
(* additive identity: the builder completes without error, and returns     *)
(* None if no other expectation value contributes.                         *)
C7_NoneGradientIsAdditiveIdentity ==
    LET evs == expectationvalues(objective)
        listed == {i \in 1..Len(evs) :
                       InSeq(call.variable.name, extract_variables(heap, evs[i]))}
    IN (/\ call.op = "grad" /\ call.obj = "Objective" /\ call.variable.type = "str"
        /\ \E i \in listed : EligiblePositions(evs[i]) = {}
        /\ \A i \in listed : FirstUndifferentiable(evs[i], call.variable.name) = 0) =>
           /\ outcome.status = "ok"
           /\ (\A i \in listed : EligiblePositions(evs[i]) = {}) => outcome.value.type = "None"

(* C9: with no_compile=True no compilation pass runs at any point of the   *)
(* call of grad, the nested calls included; with no_compile=False no pass  *)
(* is applied to a circuit more than once.                                 *)
C9_CompileAtMostOnce ==
    call.op = "grad" =>
        /\ call.no_compile =>
               /\ outcome.compiled = 0
               /\ \A U \in AllResultCircuits(outcome.value) : U.passes = <<>>
        /\ ~call.no_compile =>
               \A U \in AllResultCircuits(outcome.value) :
                   \A a, b \in 1..Len(U.passes) : U.passes[a] = U.passes[b] => a = b

====
